---- MODULE Spec2Model ----
(***************************************************************************)
(* Model of the tele-health canister (src/dfinity_js_backend/src/index.ts). *)
(*                                                                         *)
(* State: the nine StableBTreeMap stores, the set of uuids handed out so   *)
(* far, and the reply of the last call.  One action per canister method.   *)
(*                                                                         *)
(* Encoding of text values:                                                *)
(*   - ids (uuid texts and the id texts of payloads) are naturals; 0 is    *)
(*     the empty text, 1..MaxIds are the non-empty id texts;               *)
(*   - names are sequences of characters, so that toLowerCase() and        *)
(*     includes() are computed;                                            *)
(*   - every other text is a string, "" being the empty text.              *)
(* Opt(T) is a sequence of length 0 (None) or 1 (Some).                    *)
(***************************************************************************)
EXTENDS Integers, Sequences, FiniteSets, TLC

VARIABLES Departments, Doctors, Patients, Consultations, Chats, Appointments,
          Prescriptions, Payments, MedicalRecords, usedIds, result

stores == <<Departments, Doctors, Patients, Consultations, Chats, Appointments,
            Prescriptions, Payments, MedicalRecords>>

vars == <<Departments, Doctors, Patients, Consultations, Chats, Appointments,
          Prescriptions, Payments, MedicalRecords, usedIds, result>>

-----------------------------------------------------------------------------
(* Identifiers.  uuidv4() returns a text it never returned before; which    *)
(* text makes no difference to a handler beyond the key order inside one    *)
(* store, so each kind of record draws its ids from a pool of its own.      *)

MaxPerKind == 2

EmptyId == 0

KindIds(k) == {k * MaxPerKind + n : n \in 1 .. MaxPerKind}

DepartmentIds == KindIds(0)

DoctorIds == KindIds(1)

PatientIds == KindIds(2)

ConsultationIds == KindIds(3)

ChatIds == KindIds(4)

AppointmentIds == KindIds(5)

PrescriptionIds == KindIds(6)

PaymentIds == KindIds(7)

-----------------------------------------------------------------------------
(* JavaScript and azle helpers *)

None == << >>

Some(v) == <<v>>

\* { ...a, ...b }: the keys of both, b's value wherever b has the key
Spread(a, b) ==
  [f \in (DOMAIN a) \cup (DOMAIN b) |-> IF f \in DOMAIN b THEN b[f] ELSE a[f]]

\* Candid encoding of a Record type: exactly the declared fields are kept
Codec(fields, r) == [f \in fields |-> r[f]]

Ok(v) == [tag |-> "Ok", val |-> v]

Err(kind, msg) == [tag |-> kind, val |-> msg]

MissingFields == <<"Missing required fields">>

\* StableBTreeMap
Insert(store, k, v) ==
  [x \in (DOMAIN store) \cup {k} |-> IF x = k THEN v ELSE store[x]]

Remove(store, k) == [x \in (DOMAIN store) \ {k} |-> store[x]]

Get(store, k) == IF k \in DOMAIN store THEN Some(store[k]) ELSE None

MinKey(keys) == CHOOSE k \in keys : \A j \in keys : k <= j

RECURSIVE ValuesFrom(_, _)
ValuesFrom(store, keys) ==
  IF keys = {} THEN << >>
  ELSE LET k == MinKey(keys)
       IN  <<store[k]>> \o ValuesFrom(store, keys \ {k})

\* values(): the stored values in key order
Values(store) == ValuesFrom(store, DOMAIN store)

\* String.prototype.toLowerCase over the model's alphabet
LowerChar(c) == CASE c = "A" -> "a" [] c = "B" -> "b" [] OTHER -> c

toLowerCase(s) == [i \in 1 .. Len(s) |-> LowerChar(s[i])]

\* String.prototype.includes
includes(s, part) ==
  \E i \in 0 .. (Len(s) - Len(part)) : SubSeq(s, i + 1, i + Len(part)) = part

\* uuidv4() returns id: a text no earlier call returned
\* any identifier may come out again
uuidv4Repeating(id) == TRUE

uuidv4(id) == id \notin usedIds

-----------------------------------------------------------------------------
(* Record types *)

DepartmentFields == {"id", "name", "description"}

DoctorFields == {"id", "owner", "name", "department_id", "image"}

PatientFields ==
  {"id", "owner", "name", "age", "gender", "phone_number", "email", "address",
   "emergency_contact", "allergies", "current_medications", "medical_history"}

ConsultationFields == {"id", "patient_id", "problem", "department_id"}

ChatFields == {"id", "patient_id", "doctor_id", "message", "timestamp"}

AppointmentFields ==
  {"id", "patient_id", "doctor_id", "reason", "appointment_time", "status",
   "video_link"}

PrescriptionFields ==
  {"id", "patient_id", "doctor_id", "medications", "instructions", "issued_at"}

PaymentFields ==
  {"id", "appointment_id", "patient_id", "amount", "status", "payment_method"}

MedicalRecordFields ==
  {"patient_id", "consultation_notes", "prescriptions", "lab_results",
   "immunizations"}

-----------------------------------------------------------------------------
(* Inputs *)

First(ids) == MinKey(ids)

\* id texts a caller sends: the empty text and ids of the pool, whether
\* generated yet or not, stored or deleted
Refs(ids) == {EmptyId} \cup ids

Principals == {"alice", "bob"}

Texts == {"", "x"}

Contact == [name |-> <<"a">>, phone_number |-> "556", relationship |-> "Spouse"]

CreateDepartmentPayload(names) == [name : names, description : {""}]

CreateDoctorPayload(names, departments) ==
  [name : names, department_id : departments, image : Texts]

CreatePatientPayload(names, ages) ==
  [name : names, age : ages, gender : {"F"}, phone_number : {"555"},
   email : {"p@x"}, address : {"1 Main St"}, emergency_contact : {Contact},
   allergies : {<<"Peanuts">>}, current_medications : {<< >>},
   medical_history : {<< >>}]

CreateConsultationPayload(patients, departments) ==
  [patient_id : patients, problem : Texts, department_id : departments]

CreateChatPayload(patients, doctors) ==
  [patient_id : patients, doctor_id : doctors, message : Texts,
   timestamp : Texts]

CreateAppointmentPayload(patients, doctors) ==
  [patient_id : patients, doctor_id : doctors, reason : Texts,
   appointment_time : Texts]

CreatePrescriptionPayload(patients, doctors) ==
  [patient_id : patients, doctor_id : doctors, medications : {<< >>},
   instructions : Texts]

CreatePaymentPayload(patients, appointments) ==
  [patient_id : patients, appointment_id : appointments, amount : {0, 50},
   payment_method : Texts]

\* the objects updateDoctor and updatePatient are handed: a payload, or some
\* of its fields
Restrict(payload, fields) == [f \in fields |-> payload[f]]

MedicalRecordInputs(patients) ==
  [patient_id : patients, consultation_notes : {<< >>},
   prescriptions : {<< >>}, lab_results : {<< >>}, immunizations : {<< >>}]

Times == {"2024-01-01T00:00:00.000Z"}

VideoLinks == {"", "https://meet/1", "https://meet/2"}

Statuses == {"completed", "refunded"}

-----------------------------------------------------------------------------
(* Replies and frames *)

Reply(op, r) == result' = [op |-> op, tag |-> r.tag, val |-> r.val]

\* a call that returns r without touching any store
Return(op, r) == Reply(op, r) /\ UNCHANGED <<stores, usedIds>>

Init ==
  /\ Departments = << >>
  /\ Doctors = << >>
  /\ Patients = << >>
  /\ Consultations = << >>
  /\ Chats = << >>
  /\ Appointments = << >>
  /\ Prescriptions = << >>
  /\ Payments = << >>
  /\ MedicalRecords = << >>
  /\ usedIds = {}
  /\ result = [op |-> "init", tag |-> "Ok", val |-> << >>]

-----------------------------------------------------------------------------
(* Departments *)

\* the uniqueness scan of createDepartment: some stored name === payload.name
\* names are compared without regard to case
DepartmentNameTakenIgnoringCase(name) ==
  \E i \in 1 .. Len(Values(Departments)) :
    toLowerCase(Values(Departments)[i].name) = toLowerCase(name)

DepartmentNameTaken(name) ==
  \E i \in 1 .. Len(Values(Departments)) : Values(Departments)[i].name = name

NewDepartment(departmentId, payload) ==
  Spread([id |-> departmentId], payload)

createDepartment(payload, departmentId) ==
  IF payload.name = << >>
  THEN Return("createDepartment", Err("InvalidPayload", MissingFields))
  ELSE IF DepartmentNameTaken(payload.name)
  THEN Return("createDepartment",
              Err("InvalidPayload", <<"Department name must be unique">>))
  ELSE /\ uuidv4(departmentId)
       /\ LET department == NewDepartment(departmentId, payload)
         IN  /\ Departments' =
                  Insert(Departments, departmentId,
                         Codec(DepartmentFields, department))
             /\ usedIds' = usedIds \cup {departmentId}
             /\ Reply("createDepartment", Ok(Codec(DepartmentFields, department)))
             /\ UNCHANGED <<Doctors, Patients, Consultations, Chats,
                            Appointments, Prescriptions, Payments,
                            MedicalRecords>>

GetDepartmentById(departmentId) ==
  LET departmentOpt == Get(Departments, departmentId)
  IN  IF departmentOpt = None
      THEN Err("NotFound", <<"Department with id=", departmentId, " not found">>)
      ELSE Ok(departmentOpt[1])

getDepartmentById(departmentId) ==
  Return("getDepartmentById", GetDepartmentById(departmentId))

GetAllDepartments ==
  LET departments == Values(Departments)
  IN  IF Len(departments) = 0
      THEN Err("NotFound", <<"No departments found">>)
      ELSE Ok(departments)

getAllDepartments == Return("getAllDepartments", GetAllDepartments)

SearchDepartmentByName(name) ==
  LET matchingDepartments ==
        SelectSeq(Values(Departments),
                  LAMBDA department :
                    includes(toLowerCase(department.name), toLowerCase(name)))
  IN  IF Len(matchingDepartments) = 0
      THEN Err("NotFound",
               <<"No departments found with name containing '", name, "'">>)
      ELSE Ok(matchingDepartments)

searchDepartmentByName(name) ==
  Return("searchDepartmentByName", SearchDepartmentByName(name))

deleteDepartment(departmentId) ==
  IF Get(Departments, departmentId) = None
  THEN Return("deleteDepartment",
              Err("NotFound",
                  <<"Department with id=", departmentId, " not found">>))
  ELSE /\ Departments' = Remove(Departments, departmentId)
       /\ Reply("deleteDepartment",
                Ok([Success |-> <<"Department with id=", departmentId,
                                  " deleted successfully">>]))
       /\ UNCHANGED <<Doctors, Patients, Consultations, Chats, Appointments,
                      Prescriptions, Payments, MedicalRecords, usedIds>>

-----------------------------------------------------------------------------
(* Doctors *)

MissingDoctorFields(payload) ==
  payload.name = << >> \/ payload.department_id = EmptyId \/ payload.image = ""

NewDoctor(doctorId, payload, caller) ==
  Spread(Spread([id |-> doctorId], payload), [owner |-> caller])

createDoctor(payload, caller, doctorId) ==
  IF MissingDoctorFields(payload)
  THEN Return("createDoctor", Err("InvalidPayload", MissingFields))
  ELSE IF Get(Departments, payload.department_id) = None
  THEN Return("createDoctor",
              Err("InvalidPayload",
                  <<"Department with id=", payload.department_id, " not found">>))
  ELSE /\ uuidv4(doctorId)
       /\ LET doctor == NewDoctor(doctorId, payload, caller)
         IN  /\ Doctors' = Insert(Doctors, doctorId, Codec(DoctorFields, doctor))
             /\ usedIds' = usedIds \cup {doctorId}
             /\ Reply("createDoctor", Ok(Codec(DoctorFields, doctor)))
             /\ UNCHANGED <<Departments, Patients, Consultations, Chats,
                            Appointments, Prescriptions, Payments,
                            MedicalRecords>>

GetDoctorById(doctorId) ==
  LET doctorOpt == Get(Doctors, doctorId)
  IN  IF doctorOpt = None
      THEN Err("NotFound", <<"Doctor with id=", doctorId, " not found">>)
      ELSE Ok(doctorOpt[1])

getDoctorById(doctorId) == Return("getDoctorById", GetDoctorById(doctorId))

\* the last of the caller's profiles is returned
GetDoctorByOwnerLast(caller) ==
  LET doctorProfiles ==
        SelectSeq(Values(Doctors), LAMBDA doctor : doctor.owner = caller)
  IN  IF Len(doctorProfiles) = 0
      THEN Err("NotFound",
               <<"Doctor profile for owner=", caller, " not found">>)
      ELSE Ok(doctorProfiles[Len(doctorProfiles)])

GetDoctorByOwner(caller) ==
  LET doctorProfiles ==
        SelectSeq(Values(Doctors), LAMBDA doctor : doctor.owner = caller)
  IN  IF Len(doctorProfiles) = 0
      THEN Err("NotFound",
               <<"Doctor profile for owner=", caller, " not found">>)
      ELSE Ok(doctorProfiles[1])

getDoctorByOwner(caller) == Return("getDoctorByOwner", GetDoctorByOwner(caller))

\* the empty list is returned as it is
GetDoctorByDepartmentUnguarded(departmentId) ==
  Ok(SelectSeq(Values(Doctors),
               LAMBDA doctor : doctor.department_id = departmentId))

GetDoctorByDepartment(departmentId) ==
  LET doctors ==
        SelectSeq(Values(Doctors),
                  LAMBDA doctor : doctor.department_id = departmentId)
  IN  IF Len(doctors) = 0
      THEN Err("NotFound",
               <<"No doctors found for department id=", departmentId>>)
      ELSE Ok(doctors)

getDoctorByDepartment(departmentId) ==
  Return("getDoctorByDepartment", GetDoctorByDepartment(departmentId))

GetAllDoctors ==
  LET doctors == Values(Doctors)
  IN  IF Len(doctors) = 0
      THEN Err("NotFound", <<"No doctors found">>)
      ELSE Ok(doctors)

getAllDoctors == Return("getAllDoctors", GetAllDoctors)

updateDoctorAvailability(doctorId, availability) ==
  LET doctorOpt == Get(Doctors, doctorId)
  IN  IF doctorOpt = None
      THEN Return("updateDoctorAvailability",
                  Err("NotFound", <<"Doctor with id=", doctorId, " not found">>))
      ELSE LET updatedDoctor == Spread(doctorOpt[1], [available |-> availability])
           IN  /\ Doctors' =
                    Insert(Doctors, doctorId, Codec(DoctorFields, updatedDoctor))
               /\ Reply("updateDoctorAvailability",
                        Ok(Codec(DoctorFields, updatedDoctor)))
               /\ UNCHANGED <<Departments, Patients, Consultations, Chats,
                              Appointments, Prescriptions, Payments,
                              MedicalRecords, usedIds>>

SearchDoctorByName(name) ==
  LET matchingDoctors ==
        SelectSeq(Values(Doctors),
                  LAMBDA doctor :
                    includes(toLowerCase(doctor.name), toLowerCase(name)))
  IN  IF Len(matchingDoctors) = 0
      THEN Err("NotFound",
               <<"No doctors found with name containing '", name, "'">>)
      ELSE Ok(matchingDoctors)

searchDoctorByName(name) ==
  Return("searchDoctorByName", SearchDoctorByName(name))

\* { ...doctorOpt.Some, ...payload }
\* the stored record is spread over the payload
MergeDoctorStoredWins(doctor, payload) == Spread(payload, doctor)

MergeDoctor(doctor, payload) == Spread(doctor, payload)

updateDoctor(doctorId, payload) ==
  LET doctorOpt == Get(Doctors, doctorId)
  IN  IF doctorOpt = None
      THEN Return("updateDoctor",
                  Err("NotFound", <<"Doctor with id=", doctorId, " not found">>))
      ELSE LET updatedDoctor == MergeDoctor(doctorOpt[1], payload)
           IN  /\ Doctors' =
                    Insert(Doctors, doctorId, Codec(DoctorFields, updatedDoctor))
               /\ Reply("updateDoctor", Ok(Codec(DoctorFields, updatedDoctor)))
               /\ UNCHANGED <<Departments, Patients, Consultations, Chats,
                              Appointments, Prescriptions, Payments,
                              MedicalRecords, usedIds>>

deleteDoctor(doctorId) ==
  IF Get(Doctors, doctorId) = None
  THEN Return("deleteDoctor",
              Err("NotFound", <<"Doctor with id=", doctorId, " not found">>))
  ELSE /\ Doctors' = Remove(Doctors, doctorId)
       /\ Reply("deleteDoctor",
                Ok([Success |-> <<"Doctor with id=", doctorId,
                                  " deleted successfully">>]))
       /\ UNCHANGED <<Departments, Patients, Consultations, Chats,
                      Appointments, Prescriptions, Payments, MedicalRecords,
                      usedIds>>

-----------------------------------------------------------------------------
(* Patients *)

\* payload.age === undefined never holds for a decoded nat64
MissingPatientFields(payload) == payload.name = << >>

NewPatient(patientId, payload, caller) ==
  Spread(Spread(payload, [id |-> patientId]), [owner |-> caller])

createPatient(payload, caller, patientId) ==
  IF MissingPatientFields(payload)
  THEN Return("createPatient", Err("InvalidPayload", MissingFields))
  ELSE /\ uuidv4(patientId)
       /\ LET patient == NewPatient(patientId, payload, caller)
         IN  /\ Patients' =
                  Insert(Patients, patientId, Codec(PatientFields, patient))
             /\ usedIds' = usedIds \cup {patientId}
             /\ Reply("createPatient", Ok(Codec(PatientFields, patient)))
             /\ UNCHANGED <<Departments, Doctors, Consultations, Chats,
                            Appointments, Prescriptions, Payments,
                            MedicalRecords>>

GetPatientById(patientId) ==
  LET patientOpt == Get(Patients, patientId)
  IN  IF patientOpt = None
      THEN Err("NotFound", <<"Patient with id=", patientId, " not found">>)
      ELSE Ok(patientOpt[1])

getPatientById(patientId) == Return("getPatientById", GetPatientById(patientId))

GetPatientByOwner(caller) ==
  LET patientProfiles ==
        SelectSeq(Values(Patients), LAMBDA patient : patient.owner = caller)
  IN  IF Len(patientProfiles) = 0
      THEN Err("NotFound",
               <<"Patient profile for owner=", caller, " not found">>)
      ELSE Ok(patientProfiles[1])

getPatientByOwner(caller) ==
  Return("getPatientByOwner", GetPatientByOwner(caller))

GetAllPatients ==
  LET patients == Values(Patients)
  IN  IF Len(patients) = 0
      THEN Err("NotFound", <<"No patients found">>)
      ELSE Ok(patients)

getAllPatients == Return("getAllPatients", GetAllPatients)

\* { ...patientOpt.Some, ...payload }
MergePatient(patient, payload) == Spread(patient, payload)

updatePatient(patientId, payload) ==
  LET patientOpt == Get(Patients, patientId)
  IN  IF patientOpt = None
      THEN Return("updatePatient",
                  Err("NotFound", <<"Patient with id=", patientId, " not found">>))
      ELSE LET updatedPatient == MergePatient(patientOpt[1], payload)
           IN  /\ Patients' =
                    Insert(Patients, patientId,
                           Codec(PatientFields, updatedPatient))
               /\ Reply("updatePatient", Ok(Codec(PatientFields, updatedPatient)))
               /\ UNCHANGED <<Departments, Doctors, Consultations, Chats,
                              Appointments, Prescriptions, Payments,
                              MedicalRecords, usedIds>>

\* the patient's medical records go with the patient
deletePatientCascading(patientId) ==
  IF Get(Patients, patientId) = None
  THEN Return("deletePatient",
              Err("NotFound", <<"Patient with id=", patientId, " not found">>))
  ELSE /\ Patients' = Remove(Patients, patientId)
       /\ MedicalRecords' = Remove(MedicalRecords, patientId)
       /\ Reply("deletePatient",
                Ok([Success |-> <<"Patient with id=", patientId,
                                  " deleted successfully">>]))
       /\ UNCHANGED <<Departments, Doctors, Consultations, Chats,
                      Appointments, Prescriptions, Payments, usedIds>>

deletePatient(patientId) ==
  IF Get(Patients, patientId) = None
  THEN Return("deletePatient",
              Err("NotFound", <<"Patient with id=", patientId, " not found">>))
  ELSE /\ Patients' = Remove(Patients, patientId)
       /\ Reply("deletePatient",
                Ok([Success |-> <<"Patient with id=", patientId,
                                  " deleted successfully">>]))
       /\ UNCHANGED <<Departments, Doctors, Consultations, Chats,
                      Appointments, Prescriptions, Payments, MedicalRecords,
                      usedIds>>

-----------------------------------------------------------------------------
(* Consultations *)

MissingConsultationFields(payload) ==
  payload.patient_id = EmptyId \/ payload.problem = ""
    \/ payload.department_id = EmptyId

\* the new record takes the patient's id for its own
NewConsultationWrongId(consultationId, payload) ==
  Spread(payload, [id |-> payload.patient_id])

NewConsultation(consultationId, payload) ==
  Spread(payload, [id |-> consultationId])

createConsultation(payload, consultationId) ==
  IF MissingConsultationFields(payload)
  THEN Return("createConsultation", Err("InvalidPayload", MissingFields))
  ELSE IF Get(Patients, payload.patient_id) = None
  THEN Return("createConsultation",
              Err("InvalidPayload",
                  <<"Patient with id=", payload.patient_id, " not found">>))
  ELSE IF Get(Departments, payload.department_id) = None
  THEN Return("createConsultation",
              Err("InvalidPayload",
                  <<"Department with id=", payload.department_id, " not found">>))
  ELSE /\ uuidv4(consultationId)
       /\ LET consultation == NewConsultation(consultationId, payload)
         IN  /\ Consultations' =
                  Insert(Consultations, consultationId,
                         Codec(ConsultationFields, consultation))
             /\ usedIds' = usedIds \cup {consultationId}
             /\ Reply("createConsultation",
                      Ok(Codec(ConsultationFields, consultation)))
             /\ UNCHANGED <<Departments, Doctors, Patients, Chats, Appointments,
                            Prescriptions, Payments, MedicalRecords>>

GetConsultationById(consultationId) ==
  LET consultationOpt == Get(Consultations, consultationId)
  IN  IF consultationOpt = None
      THEN Err("NotFound",
               <<"Consultation with id=", consultationId, " not found">>)
      ELSE Ok(consultationOpt[1])

getConsultationById(consultationId) ==
  Return("getConsultationById", GetConsultationById(consultationId))

GetAllConsultations ==
  LET consultations == Values(Consultations)
  IN  IF Len(consultations) = 0
      THEN Err("NotFound", <<"No consultations found">>)
      ELSE Ok(consultations)

getAllConsultations == Return("getAllConsultations", GetAllConsultations)

GetConsultationHistoryByPatient(patientId) ==
  LET consultations ==
        SelectSeq(Values(Consultations),
                  LAMBDA consultation : consultation.patient_id = patientId)
  IN  IF Len(consultations) = 0
      THEN Err("NotFound",
               <<"No consultations found for patient id=", patientId>>)
      ELSE Ok(consultations)

getConsultationHistoryByPatient(patientId) ==
  Return("getConsultationHistoryByPatient",
         GetConsultationHistoryByPatient(patientId))

-----------------------------------------------------------------------------
(* Chats *)

\* the timestamp is not looked at
MissingChatFieldsButTimestamp(payload) ==
  payload.patient_id = EmptyId \/ payload.doctor_id = EmptyId
    \/ payload.message = ""

MissingChatFields(payload) ==
  payload.patient_id = EmptyId \/ payload.doctor_id = EmptyId
    \/ payload.message = "" \/ payload.timestamp = ""

NewChat(chatId, payload) == Spread(payload, [id |-> chatId])

\* createChat without the lookup of the doctor
createChatUnchecked(payload, chatId) ==
  IF MissingChatFields(payload)
  THEN Return("createChat", Err("InvalidPayload", MissingFields))
  ELSE IF Get(Patients, payload.patient_id) = None
  THEN Return("createChat",
              Err("InvalidPayload",
                  <<"Patient with id=", payload.patient_id, " not found">>))
  ELSE /\ uuidv4(chatId)
       /\ LET chat == NewChat(chatId, payload)
          IN  /\ Chats' = Insert(Chats, chatId, Codec(ChatFields, chat))
              /\ usedIds' = usedIds \cup {chatId}
              /\ Reply("createChat", Ok(Codec(ChatFields, chat)))
              /\ UNCHANGED <<Departments, Doctors, Patients, Consultations,
                             Appointments, Prescriptions, Payments,
                             MedicalRecords>>

createChat(payload, chatId) ==
  IF MissingChatFields(payload)
  THEN Return("createChat", Err("InvalidPayload", MissingFields))
  ELSE IF Get(Patients, payload.patient_id) = None
  THEN Return("createChat",
              Err("InvalidPayload",
                  <<"Patient with id=", payload.patient_id, " not found">>))
  ELSE IF Get(Doctors, payload.doctor_id) = None
  THEN Return("createChat",
              Err("InvalidPayload",
                  <<"Doctor with id=", payload.doctor_id, " not found">>))
  ELSE /\ uuidv4(chatId)
       /\ LET chat == NewChat(chatId, payload)
         IN  /\ Chats' = Insert(Chats, chatId, Codec(ChatFields, chat))
             /\ usedIds' = usedIds \cup {chatId}
             /\ Reply("createChat", Ok(Codec(ChatFields, chat)))
             /\ UNCHANGED <<Departments, Doctors, Patients, Consultations,
                            Appointments, Prescriptions, Payments,
                            MedicalRecords>>

GetChatById(chatId) ==
  LET chatOpt == Get(Chats, chatId)
  IN  IF chatOpt = None
      THEN Err("NotFound", <<"Chat with id=", chatId, " not found">>)
      ELSE Ok(chatOpt[1])

getChatById(chatId) == Return("getChatById", GetChatById(chatId))

GetAllChats ==
  LET chats == Values(Chats)
  IN  IF Len(chats) = 0
      THEN Err("NotFound", <<"No chats found">>)
      ELSE Ok(chats)

getAllChats == Return("getAllChats", GetAllChats)

-----------------------------------------------------------------------------
(* Appointments *)

MissingAppointmentFields(payload) ==
  payload.patient_id = EmptyId \/ payload.doctor_id = EmptyId
    \/ payload.reason = "" \/ payload.appointment_time = ""

NewAppointment(appointmentId, payload) ==
  Spread(payload,
         [id |-> appointmentId, status |-> "scheduled", video_link |-> None])

createAppointment(payload, appointmentId) ==
  IF MissingAppointmentFields(payload)
  THEN Return("createAppointment", Err("InvalidPayload", MissingFields))
  ELSE IF Get(Patients, payload.patient_id) = None
  THEN Return("createAppointment",
              Err("InvalidPayload",
                  <<"Patient with id=", payload.patient_id, " not found">>))
  ELSE IF Get(Doctors, payload.doctor_id) = None
  THEN Return("createAppointment",
              Err("InvalidPayload",
                  <<"Doctor with id=", payload.doctor_id, " not found">>))
  ELSE /\ uuidv4(appointmentId)
       /\ LET appointment == NewAppointment(appointmentId, payload)
         IN  /\ Appointments' =
                  Insert(Appointments, appointmentId,
                         Codec(AppointmentFields, appointment))
             /\ usedIds' = usedIds \cup {appointmentId}
             /\ Reply("createAppointment",
                      Ok(Codec(AppointmentFields, appointment)))
             /\ UNCHANGED <<Departments, Doctors, Patients, Consultations,
                            Chats, Prescriptions, Payments, MedicalRecords>>

\* !videoLink && videoLink.length === 0
\* the two tests contradict each other, so no link is refused
MissingVideoLinkNever(videoLink) == videoLink = "" /\ videoLink # ""

MissingVideoLink(videoLink) == videoLink = "" /\ videoLink = ""

\* a link already set is kept
WithFirstVideoLink(appointment, videoLink) ==
  IF appointment.video_link = None
  THEN Spread(appointment, [video_link |-> Some(videoLink)])
  ELSE appointment

WithVideoLink(appointment, videoLink) ==
  Spread(appointment, [video_link |-> Some(videoLink)])

updateAppointmentWithVideoLink(appointmentId, videoLink) ==
  IF MissingVideoLink(videoLink)
  THEN Return("updateAppointmentWithVideoLink",
              Err("InvalidPayload", MissingFields))
  ELSE LET appointmentOpt == Get(Appointments, appointmentId)
       IN  IF appointmentOpt = None
           THEN Return("updateAppointmentWithVideoLink",
                       Err("NotFound",
                           <<"Appointment with id=", appointmentId,
                             " not found">>))
           ELSE LET updatedAppointment ==
                      WithVideoLink(appointmentOpt[1], videoLink)
                IN  /\ Appointments' =
                         Insert(Appointments, appointmentId,
                                Codec(AppointmentFields, updatedAppointment))
                    /\ Reply("updateAppointmentWithVideoLink",
                             Ok(Codec(AppointmentFields, updatedAppointment)))
                    /\ UNCHANGED <<Departments, Doctors, Patients,
                                   Consultations, Chats, Prescriptions,
                                   Payments, MedicalRecords, usedIds>>

-----------------------------------------------------------------------------
(* Prescriptions *)

\* !payload.medications is false for every array, the empty one included
MissingPrescriptionFields(payload) ==
  payload.patient_id = EmptyId \/ payload.doctor_id = EmptyId
    \/ payload.instructions = ""

NewPrescription(prescriptionId, payload, now) ==
  Spread(payload, [id |-> prescriptionId, issued_at |-> now])

createPrescription(payload, now, prescriptionId) ==
  IF MissingPrescriptionFields(payload)
  THEN Return("createPrescription", Err("InvalidPayload", MissingFields))
  ELSE IF Get(Patients, payload.patient_id) = None
  THEN Return("createPrescription",
              Err("InvalidPayload",
                  <<"Patient with id=", payload.patient_id, " not found">>))
  ELSE IF Get(Doctors, payload.doctor_id) = None
  THEN Return("createPrescription",
              Err("InvalidPayload",
                  <<"Doctor with id=", payload.doctor_id, " not found">>))
  ELSE /\ uuidv4(prescriptionId)
       /\ LET prescription == NewPrescription(prescriptionId, payload, now)
         IN  /\ Prescriptions' =
                  Insert(Prescriptions, prescriptionId,
                         Codec(PrescriptionFields, prescription))
             /\ usedIds' = usedIds \cup {prescriptionId}
             /\ Reply("createPrescription",
                      Ok(Codec(PrescriptionFields, prescription)))
             /\ UNCHANGED <<Departments, Doctors, Patients, Consultations,
                            Chats, Appointments, Payments, MedicalRecords>>

-----------------------------------------------------------------------------
(* Payments *)

\* !payload.amount holds for 0n
\* the amount is not looked at
MissingPaymentFieldsButAmount(payload) ==
  payload.patient_id = EmptyId \/ payload.appointment_id = EmptyId
    \/ payload.payment_method = ""

MissingPaymentFields(payload) ==
  payload.patient_id = EmptyId \/ payload.appointment_id = EmptyId
    \/ payload.amount = 0 \/ payload.payment_method = ""

NewPayment(paymentId, payload) ==
  Spread(payload, [id |-> paymentId, status |-> "pending"])

\* the appointment is not looked up
initiatePaymentUnchecked(payload, paymentId) ==
  IF MissingPaymentFields(payload)
  THEN Return("initiatePayment", Err("InvalidPayload", MissingFields))
  ELSE IF Get(Patients, payload.patient_id) = None
  THEN Return("initiatePayment",
              Err("InvalidPayload",
                  <<"Patient with id=", payload.patient_id, " not found">>))
  ELSE /\ uuidv4(paymentId)
       /\ LET payment == NewPayment(paymentId, payload)
          IN  /\ Payments' =
                   Insert(Payments, paymentId, Codec(PaymentFields, payment))
              /\ usedIds' = usedIds \cup {paymentId}
              /\ Reply("initiatePayment", Ok(Codec(PaymentFields, payment)))
              /\ UNCHANGED <<Departments, Doctors, Patients, Consultations,
                             Chats, Appointments, Prescriptions,
                             MedicalRecords>>

\* the payment is stored before the appointment is looked up
initiatePaymentEager(payload, paymentId) ==
  IF MissingPaymentFields(payload)
  THEN Return("initiatePayment", Err("InvalidPayload", MissingFields))
  ELSE IF Get(Patients, payload.patient_id) = None
  THEN Return("initiatePayment",
              Err("InvalidPayload",
                  <<"Patient with id=", payload.patient_id, " not found">>))
  ELSE /\ uuidv4(paymentId)
       /\ LET payment == NewPayment(paymentId, payload)
          IN  /\ Payments' =
                   Insert(Payments, paymentId, Codec(PaymentFields, payment))
              /\ usedIds' = usedIds \cup {paymentId}
              /\ IF Get(Appointments, payload.appointment_id) = None
                 THEN Reply("initiatePayment",
                            Err("InvalidPayload",
                                <<"Appointment with id=",
                                  payload.appointment_id, " not found">>))
                 ELSE Reply("initiatePayment",
                            Ok(Codec(PaymentFields, payment)))
              /\ UNCHANGED <<Departments, Doctors, Patients, Consultations,
                             Chats, Appointments, Prescriptions,
                             MedicalRecords>>

initiatePayment(payload, paymentId) ==
  IF MissingPaymentFields(payload)
  THEN Return("initiatePayment", Err("InvalidPayload", MissingFields))
  ELSE IF Get(Patients, payload.patient_id) = None
  THEN Return("initiatePayment",
              Err("InvalidPayload",
                  <<"Patient with id=", payload.patient_id, " not found">>))
  ELSE IF Get(Appointments, payload.appointment_id) = None
  THEN Return("initiatePayment",
              Err("InvalidPayload",
                  <<"Appointment with id=", payload.appointment_id,
                    " not found">>))
  ELSE /\ uuidv4(paymentId)
       /\ LET payment == NewPayment(paymentId, payload)
         IN  /\ Payments' =
                  Insert(Payments, paymentId, Codec(PaymentFields, payment))
             /\ usedIds' = usedIds \cup {paymentId}
             /\ Reply("initiatePayment", Ok(Codec(PaymentFields, payment)))
             /\ UNCHANGED <<Departments, Doctors, Patients, Consultations,
                            Chats, Appointments, Prescriptions, MedicalRecords>>

WithStatus(payment, newStatus) == Spread(payment, [status |-> newStatus])

updatePaymentStatus(paymentId, newStatus) ==
  LET paymentOpt == Get(Payments, paymentId)
  IN  IF paymentOpt = None
      THEN Return("updatePaymentStatus",
                  Err("NotFound", <<"Payment with id=", paymentId, " not found">>))
      ELSE LET updatedPayment == WithStatus(paymentOpt[1], newStatus)
           IN  /\ Payments' =
                    Insert(Payments, paymentId,
                           Codec(PaymentFields, updatedPayment))
               /\ Reply("updatePaymentStatus",
                        Ok(Codec(PaymentFields, updatedPayment)))
               /\ UNCHANGED <<Departments, Doctors, Patients, Consultations,
                              Chats, Appointments, Prescriptions,
                              MedicalRecords, usedIds>>

-----------------------------------------------------------------------------
(* Medical records *)

GetMedicalRecordsByPatient(patientId) ==
  LET medicalRecordOpt == Get(MedicalRecords, patientId)
  IN  IF medicalRecordOpt = None
      THEN Err("NotFound",
               <<"Medical records for patient id=", patientId, " not found">>)
      ELSE Ok(medicalRecordOpt[1])

getMedicalRecordsByPatient(patientId) ==
  Return("getMedicalRecordsByPatient", GetMedicalRecordsByPatient(patientId))

\* the notes handed in are added to the notes already stored
updateMedicalRecordsMerging(patientId, updatedRecords) ==
  LET stored == Get(MedicalRecords, patientId)
      merged ==
        IF stored = None
        THEN updatedRecords
        ELSE Spread(updatedRecords,
                    [consultation_notes |->
                       stored[1].consultation_notes
                         \o updatedRecords.consultation_notes])
  IN  /\ MedicalRecords' =
           Insert(MedicalRecords, patientId,
                  Codec(MedicalRecordFields, merged))
      /\ Reply("updateMedicalRecords", Ok(Codec(MedicalRecordFields, merged)))
      /\ UNCHANGED <<Departments, Doctors, Patients, Consultations, Chats,
                     Appointments, Prescriptions, Payments, usedIds>>

updateMedicalRecords(patientId, updatedRecords) ==
  /\ MedicalRecords' =
       Insert(MedicalRecords, patientId,
              Codec(MedicalRecordFields, updatedRecords))
  /\ Reply("updateMedicalRecords", Ok(Codec(MedicalRecordFields, updatedRecords)))
  /\ UNCHANGED <<Departments, Doctors, Patients, Consultations, Chats,
                 Appointments, Prescriptions, Payments, usedIds>>

-----------------------------------------------------------------------------
(* Calculators.  Number arithmetic is carried out on exact fractions; a     *)
(* toFixed(2) text is the number of hundredths it shows.                    *)

\* the integer nearest to num / den, halves upwards (den > 0)
RoundHalfUp(num, den) == (2 * num + den) \div (2 * den)

BMICategory(weight, height) ==
  IF 20000 * weight < 37 * height * height THEN "Underweight"
  ELSE IF 100000 * weight < 249 * height * height THEN "Normal Weight"
  ELSE IF 100000 * weight < 299 * height * height THEN "Overweight"
  ELSE "Obese"

\* without the test of height the quotient is Infinity or NaN, which the
\* test of isFinite refuses
CalculateBMIUnguarded(weight, height) ==
  IF height = 0
  THEN Err("Error", <<"Invalid BMI calculation.">>)
  ELSE Ok(<<"BMI is ", RoundHalfUp(1000000 * weight, height * height), " - ",
            BMICategory(weight, height)>>)

\* isFinite(bmi) holds whenever height is not 0
CalculateBMI(weight, height) ==
  IF height = 0
  THEN Err("Error", <<"Height cannot be zero.">>)
  ELSE Ok(<<"BMI is ", RoundHalfUp(1000000 * weight, height * height), " - ",
            BMICategory(weight, height)>>)

calculateBMI(weight, height) ==
  Return("calculateBMI", CalculateBMI(weight, height))

CalculateDosage(patientWeight, dosagePerKg) == Ok(patientWeight * dosagePerKg)

calculateDosage(patientWeight, dosagePerKg) ==
  Return("calculateDosage", CalculateDosage(patientWeight, dosagePerKg))

\* Math.round(baseCost - baseCost * discountRate)
EstimateInsuranceCost(baseCost, hasInsurance) ==
  IF hasInsurance THEN Ok(RoundHalfUp(8 * baseCost, 10)) ELSE Ok(baseCost)

estimateInsuranceCost(baseCost, hasInsurance) ==
  Return("estimateInsuranceCost", EstimateInsuranceCost(baseCost, hasInsurance))

\* ten times age * 0.3 + bmi * 0.5 + bloodPressure * 0.2
RiskTenths(age, bmi, bloodPressure) == 3 * age + 5 * bmi + 2 * bloodPressure

RiskLevel(tenths) ==
  IF tenths < 200 THEN "Low Risk"
  ELSE IF tenths < 300 THEN "Moderate Risk"
  ELSE "High Risk"

CalculateHealthRiskScore(age, bmi, bloodPressure) ==
  LET riskScore == RiskTenths(age, bmi, bloodPressure)
  IN  Ok(<<"Health Risk Score: ", 10 * riskScore, " - ", RiskLevel(riskScore)>>)

calculateHealthRiskScore(age, bmi, bloodPressure) ==
  Return("calculateHealthRiskScore",
         CalculateHealthRiskScore(age, bmi, bloodPressure))

-----------------------------------------------------------------------------
(* Every handler, on one id per kind *)

DepartmentRefs == Refs({First(DepartmentIds)})

DoctorRefs == Refs({First(DoctorIds)})

PatientRefs == Refs({First(PatientIds)})

ConsultationRefs == Refs({First(ConsultationIds)})

ChatRefs == Refs({First(ChatIds)})

AppointmentRefs == Refs({First(AppointmentIds)})

PaymentRefs == Refs({First(PaymentIds)})

DepartmentInputs == CreateDepartmentPayload({<< >>, <<"a">>})

DoctorInputs == CreateDoctorPayload({<< >>, <<"a">>}, DepartmentRefs)

PatientInputs == CreatePatientPayload({<< >>, <<"a">>}, {30})

ConsultationInputs == CreateConsultationPayload(PatientRefs, DepartmentRefs)

ChatInputs == CreateChatPayload(PatientRefs, DoctorRefs)

AppointmentInputs == CreateAppointmentPayload(PatientRefs, DoctorRefs)

PrescriptionInputs == CreatePrescriptionPayload(PatientRefs, DoctorRefs)

PaymentInputs == CreatePaymentPayload(PatientRefs, AppointmentRefs)

DoctorUpdates == {[name |-> <<"a">>]}

PatientUpdates == CreatePatientPayload({<<"a">>}, {30})

RecordInputs == MedicalRecordInputs({First(PatientIds)})

Next ==
  \/ \E payload \in DepartmentInputs :
       createDepartment(payload, First(DepartmentIds))
  \/ \E departmentId \in DepartmentRefs : getDepartmentById(departmentId)
  \/ getAllDepartments
  \/ \E payload \in DoctorInputs :
       createDoctor(payload, "alice", First(DoctorIds))
  \/ \E doctorId \in DoctorRefs : getDoctorById(doctorId)
  \/ \E caller \in Principals : getDoctorByOwner(caller)
  \/ \E departmentId \in DepartmentRefs : getDoctorByDepartment(departmentId)
  \/ getAllDoctors
  \/ \E payload \in PatientInputs :
       createPatient(payload, "alice", First(PatientIds))
  \/ \E patientId \in PatientRefs : getPatientById(patientId)
  \/ \E caller \in Principals : getPatientByOwner(caller)
  \/ getAllPatients
  \/ \E payload \in ConsultationInputs :
       createConsultation(payload, First(ConsultationIds))
  \/ \E consultationId \in ConsultationRefs :
       getConsultationById(consultationId)
  \/ getAllConsultations
  \/ \E payload \in ChatInputs :
       createChat(payload, First(ChatIds))
  \/ \E chatId \in ChatRefs : getChatById(chatId)
  \/ getAllChats
  \/ \E patientId \in PatientRefs, payload \in PatientUpdates :
       updatePatient(patientId, payload)
  \/ \E patientId \in PatientRefs : deletePatient(patientId)
  \/ \E patientId \in PatientRefs : getConsultationHistoryByPatient(patientId)
  \/ \E doctorId \in DoctorRefs, availability \in BOOLEAN :
       updateDoctorAvailability(doctorId, availability)
  \/ \E name \in {<<"A">>, <<"b">>} : searchDoctorByName(name)
  \/ \E name \in {<<"A">>, <<"b">>} : searchDepartmentByName(name)
  \/ \E doctorId \in DoctorRefs, payload \in DoctorUpdates :
       updateDoctor(doctorId, payload)
  \/ \E doctorId \in DoctorRefs : deleteDoctor(doctorId)
  \/ \E departmentId \in DepartmentRefs : deleteDepartment(departmentId)
  \/ \E payload \in AppointmentInputs :
       createAppointment(payload, First(AppointmentIds))
  \/ \E appointmentId \in AppointmentRefs, videoLink \in VideoLinks :
       updateAppointmentWithVideoLink(appointmentId, videoLink)
  \/ \E payload \in PrescriptionInputs, now \in Times :
       createPrescription(payload, now, First(PrescriptionIds))
  \/ \E payload \in PaymentInputs :
       initiatePayment(payload, First(PaymentIds))
  \/ \E paymentId \in PaymentRefs, newStatus \in Statuses :
       updatePaymentStatus(paymentId, newStatus)
  \/ \E patientId \in PatientRefs : getMedicalRecordsByPatient(patientId)
  \/ \E updatedRecords \in RecordInputs :
       updateMedicalRecords(First(PatientIds), updatedRecords)
  \/ calculateBMI(70, 175) \/ calculateBMI(70, 0)
  \/ calculateDosage(70, 2)
  \/ \E hasInsurance \in BOOLEAN : estimateInsuranceCost(1000, hasInsurance)
  \/ calculateHealthRiskScore(30, 23, 120)

Spec == Init /\ [][Next]_vars

-----------------------------------------------------------------------------
(* Properties of Spec *)

Rejected == result'.tag = "InvalidPayload" /\ UNCHANGED stores

\* C1: createConsultation, createChat, createAppointment, createPrescription
\* and initiatePayment, called with every required field non-empty and a
\* referenced id that is no key of its store, return InvalidPayload and leave
\* all nine stores as they were.
DanglingReferenceRejected ==
  [][ /\ result'.op = "createConsultation" =>
           \A payload \in ConsultationInputs :
             ( /\ payload.patient_id # EmptyId
               /\ payload.problem # ""
               /\ payload.department_id # EmptyId
               /\ \/ payload.patient_id \notin DOMAIN Patients
                  \/ payload.department_id \notin DOMAIN Departments
               /\ createConsultation(payload, First(ConsultationIds)) )
             => Rejected
      /\ result'.op = "createChat" =>
           \A payload \in ChatInputs :
             ( /\ payload.patient_id # EmptyId
               /\ payload.doctor_id # EmptyId
               /\ payload.message # ""
               /\ payload.timestamp # ""
               /\ \/ payload.patient_id \notin DOMAIN Patients
                  \/ payload.doctor_id \notin DOMAIN Doctors
               /\ createChat(payload, First(ChatIds)) )
             => Rejected
      /\ result'.op = "createAppointment" =>
           \A payload \in AppointmentInputs :
             ( /\ payload.patient_id # EmptyId
               /\ payload.doctor_id # EmptyId
               /\ payload.reason # ""
               /\ payload.appointment_time # ""
               /\ \/ payload.patient_id \notin DOMAIN Patients
                  \/ payload.doctor_id \notin DOMAIN Doctors
               /\ createAppointment(payload, First(AppointmentIds)) )
             => Rejected
      /\ result'.op = "createPrescription" =>
           \A payload \in PrescriptionInputs, now \in Times :
             ( /\ payload.patient_id # EmptyId
               /\ payload.doctor_id # EmptyId
               /\ payload.instructions # ""
               /\ \/ payload.patient_id \notin DOMAIN Patients
                  \/ payload.doctor_id \notin DOMAIN Doctors
               /\ createPrescription(payload, now, First(PrescriptionIds)) )
             => Rejected
      /\ result'.op = "initiatePayment" =>
           \A payload \in PaymentInputs :
             ( /\ payload.patient_id # EmptyId
               /\ payload.appointment_id # EmptyId
               /\ payload.payment_method # ""
               /\ \/ payload.patient_id \notin DOMAIN Patients
                  \/ payload.appointment_id \notin DOMAIN Appointments
               /\ initiatePayment(payload, First(PaymentIds)) )
             => Rejected
    ]_vars

\* a consultation for a stored patient was refused because its department,
\* stored earlier, had been deleted
DanglingReferenceWitness ==
  /\ result.op = "createConsultation"
  /\ result.tag = "InvalidPayload"
  /\ result.val = <<"Department with id=", First(DepartmentIds), " not found">>
  /\ First(DepartmentIds) \in usedIds
  /\ First(PatientIds) \in DOMAIN Patients

\* C3: a record returned by a successful createDepartment, createDoctor,
\* createPatient, createConsultation or createChat is what the get-by-id of
\* its kind returns for the record's id right after the call.
CreateThenGet ==
  /\ (result.op = "createDepartment" /\ result.tag = "Ok") =>
       /\ GetDepartmentById(result.val.id).tag = "Ok"
       /\ GetDepartmentById(result.val.id).val = result.val
  /\ (result.op = "createDoctor" /\ result.tag = "Ok") =>
       /\ GetDoctorById(result.val.id).tag = "Ok"
       /\ GetDoctorById(result.val.id).val = result.val
  /\ (result.op = "createPatient" /\ result.tag = "Ok") =>
       /\ GetPatientById(result.val.id).tag = "Ok"
       /\ GetPatientById(result.val.id).val = result.val
  /\ (result.op = "createConsultation" /\ result.tag = "Ok") =>
       /\ GetConsultationById(result.val.id).tag = "Ok"
       /\ GetConsultationById(result.val.id).val = result.val
  /\ (result.op = "createChat" /\ result.tag = "Ok") =>
       /\ GetChatById(result.val.id).tag = "Ok"
       /\ GetChatById(result.val.id).val = result.val

\* a consultation has just been created and is returned by its id
CreateThenGetWitness ==
  /\ result.op = "createConsultation"
  /\ result.tag = "Ok"
  /\ GetConsultationById(First(ConsultationIds)).tag = "Ok"
  /\ result.val.patient_id = First(PatientIds)

NotFoundUnchanged == result'.tag = "NotFound" /\ UNCHANGED stores

\* C4: a call that returns an error leaves all nine stores as they were; an
\* update or delete of an id that is not stored returns NotFound and changes
\* nothing.
NoPartialApplication ==
  [][ /\ result'.tag # "Ok" => UNCHANGED stores
      /\ result'.op = "updatePatient" =>
           \A patientId \in PatientRefs, payload \in PatientUpdates :
             ( /\ patientId \notin DOMAIN Patients
               /\ updatePatient(patientId, payload) )
             => NotFoundUnchanged
      /\ result'.op = "deletePatient" =>
           \A patientId \in PatientRefs :
             ( /\ patientId \notin DOMAIN Patients
               /\ deletePatient(patientId) )
             => NotFoundUnchanged
      /\ result'.op = "updateDoctor" =>
           \A doctorId \in DoctorRefs, payload \in DoctorUpdates :
             ( /\ doctorId \notin DOMAIN Doctors
               /\ updateDoctor(doctorId, payload) )
             => NotFoundUnchanged
      /\ result'.op = "updateDoctorAvailability" =>
           \A doctorId \in DoctorRefs, availability \in BOOLEAN :
             ( /\ doctorId \notin DOMAIN Doctors
               /\ updateDoctorAvailability(doctorId, availability) )
             => NotFoundUnchanged
      /\ result'.op = "deleteDoctor" =>
           \A doctorId \in DoctorRefs :
             ( /\ doctorId \notin DOMAIN Doctors
               /\ deleteDoctor(doctorId) )
             => NotFoundUnchanged
      /\ result'.op = "deleteDepartment" =>
           \A departmentId \in DepartmentRefs :
             ( /\ departmentId \notin DOMAIN Departments
               /\ deleteDepartment(departmentId) )
             => NotFoundUnchanged
      /\ result'.op = "updateAppointmentWithVideoLink" =>
           \A appointmentId \in AppointmentRefs, videoLink \in VideoLinks :
             ( /\ appointmentId \notin DOMAIN Appointments
               /\ videoLink # ""
               /\ updateAppointmentWithVideoLink(appointmentId, videoLink) )
             => NotFoundUnchanged
      /\ result'.op = "updatePaymentStatus" =>
           \A paymentId \in PaymentRefs, newStatus \in Statuses :
             ( /\ paymentId \notin DOMAIN Payments
               /\ updatePaymentStatus(paymentId, newStatus) )
             => NotFoundUnchanged
    ]_vars

\* a payment was refused for want of its appointment while a patient was
\* stored
NoPartialApplicationWitness ==
  /\ result.op = "initiatePayment"
  /\ result.tag = "InvalidPayload"
  /\ result.val = <<"Appointment with id=", First(AppointmentIds), " not found">>
  /\ First(PatientIds) \in DOMAIN Patients
  /\ Payments = << >>

MissingRejected ==
  /\ result'.tag = "InvalidPayload"
  /\ result'.val = MissingFields
  /\ UNCHANGED stores

\* C8: every create returns InvalidPayload "Missing required fields" and
\* stores nothing when a required field is empty, whether or not the ids the
\* payload refers to are stored.
MissingFieldsRejected ==
  [][ /\ result'.op = "createDepartment" =>
           \A payload \in DepartmentInputs :
             \/ MissingRejected
             \/ ~( /\ payload.name = << >>
                   /\ createDepartment(payload, First(DepartmentIds)) )
      /\ result'.op = "createDoctor" =>
           \A payload \in DoctorInputs :
             \/ MissingRejected
             \/ ~( /\ \/ payload.name = << >>
                      \/ payload.department_id = EmptyId
                      \/ payload.image = ""
                   /\ createDoctor(payload, "alice", First(DoctorIds)) )
      /\ result'.op = "createPatient" =>
           \A payload \in PatientInputs :
             \/ MissingRejected
             \/ ~( /\ payload.name = << >>
                   /\ createPatient(payload, "alice", First(PatientIds)) )
      /\ result'.op = "createConsultation" =>
           \A payload \in ConsultationInputs :
             \/ MissingRejected
             \/ ~( /\ \/ payload.patient_id = EmptyId
                      \/ payload.problem = ""
                      \/ payload.department_id = EmptyId
                   /\ createConsultation(payload, First(ConsultationIds)) )
      /\ result'.op = "createChat" =>
           \A payload \in ChatInputs :
             \/ MissingRejected
             \/ ~( /\ \/ payload.patient_id = EmptyId
                      \/ payload.doctor_id = EmptyId
                      \/ payload.message = ""
                      \/ payload.timestamp = ""
                   /\ createChat(payload, First(ChatIds)) )
      /\ result'.op = "createAppointment" =>
           \A payload \in AppointmentInputs :
             \/ MissingRejected
             \/ ~( /\ \/ payload.patient_id = EmptyId
                      \/ payload.doctor_id = EmptyId
                      \/ payload.reason = ""
                      \/ payload.appointment_time = ""
                   /\ createAppointment(payload, First(AppointmentIds)) )
      /\ result'.op = "createPrescription" =>
           \A payload \in PrescriptionInputs, now \in Times :
             \/ MissingRejected
             \/ ~( /\ \/ payload.patient_id = EmptyId
                      \/ payload.doctor_id = EmptyId
                      \/ payload.instructions = ""
                   /\ createPrescription(payload, now, First(PrescriptionIds)) )
      /\ result'.op = "initiatePayment" =>
           \A payload \in PaymentInputs :
             \/ MissingRejected
             \/ ~( /\ \/ payload.patient_id = EmptyId
                      \/ payload.appointment_id = EmptyId
                      \/ payload.payment_method = ""
                   /\ initiatePayment(payload, First(PaymentIds)) )
    ]_vars

\* a chat was refused for a missing field while no doctor was stored, so
\* that every doctor_id it could carry was dangling
MissingFieldsWitness ==
  /\ result.op = "createChat"
  /\ result.tag = "InvalidPayload"
  /\ result.val = MissingFields
  /\ First(PatientIds) \in DOMAIN Patients
  /\ Doctors = << >>

\* C9: every stored Payment has status "pending", "completed" or "failed".
PaymentStatusKnown ==
  \A paymentId \in DOMAIN Payments :
    Payments[paymentId].status \in {"pending", "completed", "failed"}

\* C10: an Appointment is created "scheduled" without a video link; the link
\* stays absent until updateAppointmentWithVideoLink succeeds on its id, is
\* then the link of that call, and is never absent again; status, patient_id,
\* doctor_id, reason and appointment_time never change.
AppointmentLifecycle ==
  [][ \A appointmentId \in AppointmentIds :
        /\ ( /\ appointmentId \notin DOMAIN Appointments
             /\ appointmentId \in DOMAIN Appointments' ) =>
             /\ result'.op = "createAppointment"
             /\ Appointments'[appointmentId].status = "scheduled"
             /\ Appointments'[appointmentId].video_link = None
        /\ appointmentId \in DOMAIN Appointments =>
             /\ appointmentId \in DOMAIN Appointments'
             /\ \A f \in {"id", "status", "patient_id", "doctor_id", "reason",
                          "appointment_time"} :
                  Appointments'[appointmentId][f] = Appointments[appointmentId][f]
             /\ Appointments[appointmentId].video_link # None =>
                  Appointments'[appointmentId].video_link # None
             /\ Appointments'[appointmentId].video_link
                    # Appointments[appointmentId].video_link =>
                  /\ result'.op = "updateAppointmentWithVideoLink"
                  /\ result'.tag = "Ok"
                  /\ result'.val.id = appointmentId
             /\ result'.op = "updateAppointmentWithVideoLink" =>
                  \A videoLink \in VideoLinks :
                    ( /\ videoLink # ""
                      /\ updateAppointmentWithVideoLink(appointmentId, videoLink) )
                    => /\ result'.tag = "Ok"
                       /\ Appointments'[appointmentId].video_link
                            = Some(videoLink)
    ]_vars

\* the appointment carries the second link, set by the call just made
AppointmentLifecycleWitness ==
  /\ result.op = "updateAppointmentWithVideoLink"
  /\ result.tag = "Ok"
  /\ First(AppointmentIds) \in DOMAIN Appointments
  /\ Appointments[First(AppointmentIds)].video_link = Some("https://meet/2")
  /\ Appointments[First(AppointmentIds)].status = "scheduled"

\* key is gone from store and the other records of store are as they were
RemovedOnly(store, storeAfter, key) ==
  /\ key \in DOMAIN store
  /\ DOMAIN storeAfter = DOMAIN store \ {key}
  /\ \A other \in DOMAIN storeAfter : storeAfter[other] = store[other]

\* C13: a successful deleteDepartment, deleteDoctor or deletePatient removes
\* the one key from its own store and leaves the eight other stores as they
\* were, records that refer to the deleted id included.
NoCascade ==
  [][ /\ (result'.op = "deleteDepartment" /\ result'.tag = "Ok") =>
           \A departmentId \in DepartmentRefs :
             deleteDepartment(departmentId)
             => /\ RemovedOnly(Departments, Departments', departmentId)
                /\ UNCHANGED <<Doctors, Patients, Consultations, Chats,
                               Appointments, Prescriptions, Payments,
                               MedicalRecords>>
      /\ (result'.op = "deleteDoctor" /\ result'.tag = "Ok") =>
           \A doctorId \in DoctorRefs :
             deleteDoctor(doctorId)
             => /\ RemovedOnly(Doctors, Doctors', doctorId)
                /\ UNCHANGED <<Departments, Patients, Consultations, Chats,
                               Appointments, Prescriptions, Payments,
                               MedicalRecords>>
      /\ (result'.op = "deletePatient" /\ result'.tag = "Ok") =>
           \A patientId \in PatientRefs :
             deletePatient(patientId)
             => /\ RemovedOnly(Patients, Patients', patientId)
                /\ UNCHANGED <<Departments, Doctors, Consultations, Chats,
                               Appointments, Prescriptions, Payments,
                               MedicalRecords>>
    ]_vars

\* the patient has just been deleted, and a consultation, a chat, an
\* appointment, a prescription, a payment and a medical record still refer
\* to it
NoCascadeWitness ==
  /\ result.op = "deletePatient"
  /\ result.tag = "Ok"
  /\ Patients = << >>
  /\ \A store \in {Consultations, Chats, Appointments, Prescriptions,
                   Payments, MedicalRecords} :
       \E k \in DOMAIN store : store[k].patient_id = First(PatientIds)

\* C15: every stored Payment has a positive amount; initiatePayment with
\* amount 0 stores no Payment, and no operation changes the amount of a stored
\* Payment.
PaymentAmountPositive ==
  /\ [](\A paymentId \in DOMAIN Payments : Payments[paymentId].amount > 0)
  /\ [][ /\ \A paymentId \in DOMAIN Payments \cap DOMAIN Payments' :
              Payments'[paymentId].amount = Payments[paymentId].amount
         /\ result'.op = "initiatePayment" =>
              \A payload \in PaymentInputs :
                ( /\ payload.amount = 0
                  /\ initiatePayment(payload, First(PaymentIds)) )
                => /\ result'.tag = "InvalidPayload"
                   /\ UNCHANGED Payments
       ]_vars

\* a payment was refused although its patient and its appointment are stored
\* and no payment is
PaymentAmountWitness ==
  /\ result.op = "initiatePayment"
  /\ result.tag = "InvalidPayload"
  /\ result.val = MissingFields
  /\ First(PatientIds) \in DOMAIN Patients
  /\ First(AppointmentIds) \in DOMAIN Appointments
  /\ Payments = << >>

\* C16: updateAppointmentWithVideoLink with an empty link returns
\* InvalidPayload and leaves the appointments as they were, whether or not the
\* id is stored; with a non-empty link and a stored id it sets video_link to
\* the link and changes no other field of the appointment.
VideoLinkRequired ==
  [][ result'.op = "updateAppointmentWithVideoLink" =>
        \A appointmentId \in AppointmentRefs, videoLink \in VideoLinks :
          updateAppointmentWithVideoLink(appointmentId, videoLink)
          => IF videoLink = ""
             THEN /\ result'.tag = "InvalidPayload"
                  /\ UNCHANGED Appointments
             ELSE appointmentId \in DOMAIN Appointments
                  => /\ result'.tag = "Ok"
                     /\ DOMAIN Appointments' = DOMAIN Appointments
                     /\ Appointments'[appointmentId].video_link
                          = Some(videoLink)
                     /\ \A f \in AppointmentFields \ {"video_link"} :
                          Appointments'[appointmentId][f]
                            = Appointments[appointmentId][f]
    ]_vars

\* an empty link was refused as a missing field while no appointment was
\* stored, so that the id it came with was not stored either
VideoLinkWitness ==
  /\ result.op = "updateAppointmentWithVideoLink"
  /\ result.tag = "InvalidPayload"
  /\ result.val = MissingFields
  /\ Appointments = << >>
  /\ First(PatientIds) \in DOMAIN Patients

\* C18: the appointment_id of every stored Payment is a key of the
\* Appointments store, in every reachable state, also when the Payment's
\* patient_id is no longer a key of Patients.
PaymentAppointmentStored ==
  \A paymentId \in DOMAIN Payments :
    Payments[paymentId].appointment_id \in DOMAIN Appointments

\* the patient of a stored payment has been deleted, and its appointment is
\* stored
PaymentAppointmentWitness ==
  /\ result.op = "deletePatient"
  /\ result.tag = "Ok"
  /\ \E paymentId \in DOMAIN Payments :
       /\ Payments[paymentId].patient_id \notin DOMAIN Patients
       /\ Payments[paymentId].appointment_id \in DOMAIN Appointments

-----------------------------------------------------------------------------
(* Departments alone, on every id and with names that differ only in case *)

DepartmentNames == {<< >>, <<"a">>, <<"A">>, <<"a", "b">>}

NamedDepartments == CreateDepartmentPayload(DepartmentNames)

NextDepartments ==
  \/ \E payload \in NamedDepartments, departmentId \in DepartmentIds :
       createDepartment(payload, departmentId)
  \/ \E departmentId \in Refs(DepartmentIds) : getDepartmentById(departmentId)
  \/ getAllDepartments
  \/ \E name \in DepartmentNames : searchDepartmentByName(name)
  \/ \E departmentId \in Refs(DepartmentIds) : deleteDepartment(departmentId)

SpecDepartments == Init /\ [][NextDepartments]_vars

\* C2: no two stored Departments have the same name; createDepartment with
\* the name of a stored Department returns InvalidPayload and stores nothing,
\* and with a name that no stored Department has (names compared as they are
\* written) it stores the Department.
DepartmentNamesUnique ==
  /\ [](\A a, b \in DOMAIN Departments :
          Departments[a].name = Departments[b].name => a = b)
  /\ [][ result'.op = "createDepartment" =>
           \A payload \in NamedDepartments, departmentId \in DepartmentIds :
             ( /\ payload.name # << >>
               /\ createDepartment(payload, departmentId) )
             => IF \E d \in DOMAIN Departments :
                     Departments[d].name = payload.name
                THEN /\ result'.tag = "InvalidPayload"
                     /\ UNCHANGED stores
                ELSE /\ result'.tag = "Ok"
                     /\ DOMAIN Departments' =
                          DOMAIN Departments \cup {departmentId}
                     /\ Departments'[departmentId].name = payload.name
       ]_vars

\* "A" was stored next to "a", and a second "a" has just been refused
DepartmentNamesWitness ==
  /\ result.op = "createDepartment"
  /\ result.tag = "InvalidPayload"
  /\ result.val = <<"Department name must be unique">>
  /\ \E a, b \in DOMAIN Departments :
       /\ Departments[a].name = <<"a">>
       /\ Departments[b].name = <<"A">>

-----------------------------------------------------------------------------
(* The lists and filters, over stores of up to two records *)

ListedNames == {<<"a">>, <<"a", "B">>}

SearchedNames == {<<"A">>, <<"b">>, <<"c">>}

ListedDepartments == CreateDepartmentPayload(ListedNames)

ListedDoctors ==
  { [name |-> <<"a">>, department_id |-> First(DepartmentIds), image |-> "x"],
    [name |-> <<"a", "B">>, department_id |-> First(DepartmentIds) + 1,
     image |-> "x"] }

ListedPatients == CreatePatientPayload({<<"a">>}, {30})

ListedConsultations ==
  CreateConsultationPayload(PatientIds, {First(DepartmentIds)})

ListedChats ==
  [patient_id : {First(PatientIds)}, doctor_id : {First(DoctorIds)},
   message : {"x"}, timestamp : {"x"}]

NextListing ==
  \/ \E payload \in ListedDepartments, departmentId \in DepartmentIds :
       createDepartment(payload, departmentId)
  \/ \E payload \in ListedDoctors, doctorId \in DoctorIds :
       createDoctor(payload, "alice", doctorId)
  \/ \E payload \in ListedPatients, patientId \in PatientIds :
       createPatient(payload, "alice", patientId)
  \/ \E payload \in ListedConsultations, consultationId \in ConsultationIds :
       createConsultation(payload, consultationId)
  \/ \E payload \in ListedChats : createChat(payload, First(ChatIds))
  \/ getAllDepartments
  \/ getAllDoctors
  \/ getAllPatients
  \/ getAllConsultations
  \/ getAllChats
  \/ \E departmentId \in DepartmentIds : getDoctorByDepartment(departmentId)
  \/ \E name \in SearchedNames : searchDoctorByName(name)
  \/ \E name \in SearchedNames : searchDepartmentByName(name)
  \/ \E patientId \in PatientIds : getConsultationHistoryByPatient(patientId)

SpecListing == Init /\ [][NextListing]_vars

\* the reply lists the records of store under keys, each once, or is NotFound
\* when there are none
Lists(reply, store, keys) ==
  IF keys = {}
  THEN reply.tag = "NotFound"
  ELSE /\ reply.tag = "Ok"
       /\ Len(reply.val) = Cardinality(keys)
       /\ {reply.val[i] : i \in 1 .. Len(reply.val)} = {store[k] : k \in keys}

Contains(name, part) ==
  \E i \in 0 .. Len(name) - Len(part) :
    \A j \in 1 .. Len(part) : LowerChar(name[i + j]) = LowerChar(part[j])

\* C5: each list-all and each filter returns NotFound exactly when no stored
\* record matches, and otherwise Ok with exactly the matching stored records.
ListsExactlyTheMatches ==
  /\ Lists(GetAllDepartments, Departments, DOMAIN Departments)
  /\ Lists(GetAllDoctors, Doctors, DOMAIN Doctors)
  /\ Lists(GetAllPatients, Patients, DOMAIN Patients)
  /\ Lists(GetAllConsultations, Consultations, DOMAIN Consultations)
  /\ Lists(GetAllChats, Chats, DOMAIN Chats)
  /\ \A departmentId \in DepartmentIds :
       Lists(GetDoctorByDepartment(departmentId), Doctors,
             {k \in DOMAIN Doctors : Doctors[k].department_id = departmentId})
  /\ \A name \in SearchedNames :
       /\ Lists(SearchDoctorByName(name), Doctors,
                {k \in DOMAIN Doctors : Contains(Doctors[k].name, name)})
       /\ Lists(SearchDepartmentByName(name), Departments,
                {k \in DOMAIN Departments :
                   Contains(Departments[k].name, name)})
  /\ \A patientId \in PatientIds :
       Lists(GetConsultationHistoryByPatient(patientId), Consultations,
             {k \in DOMAIN Consultations :
                Consultations[k].patient_id = patientId})
  /\ result.op \in {"getAllDepartments", "getAllDoctors", "getAllPatients",
                    "getAllConsultations", "getAllChats",
                    "getDoctorByDepartment", "searchDoctorByName",
                    "searchDepartmentByName",
                    "getConsultationHistoryByPatient"}
       => IF result.tag = "Ok" THEN result.val # << >>
                               ELSE result.tag = "NotFound"

\* one of two stored doctors was returned for its department, and the other
\* department's list is the other doctor
ListsWitness ==
  /\ result.op = "getDoctorByDepartment"
  /\ result.tag = "Ok"
  /\ Len(result.val) = 1
  /\ Cardinality(DOMAIN Doctors) = 2
  /\ GetDoctorByDepartment(First(DepartmentIds)).tag = "Ok"
  /\ GetDoctorByDepartment(First(DepartmentIds) + 1).tag = "Ok"
  /\ SearchDoctorByName(<<"c">>).tag = "NotFound"

-----------------------------------------------------------------------------
(* Creating, reading and deleting departments, doctors and patients *)

DirectoryDepartments == CreateDepartmentPayload({<<"a">>, <<"b">>})

DirectoryDoctors == CreateDoctorPayload({<<"a">>}, {First(DepartmentIds)})

DirectoryPatients == CreatePatientPayload({<<"a">>}, {30})

NextDirectory ==
  \/ \E payload \in DirectoryDepartments, departmentId \in DepartmentIds :
       createDepartment(payload, departmentId)
  \/ \E payload \in DirectoryDoctors, doctorId \in DoctorIds :
       createDoctor(payload, "alice", doctorId)
  \/ \E payload \in DirectoryPatients, patientId \in PatientIds :
       createPatient(payload, "alice", patientId)
  \/ \E departmentId \in DepartmentIds : getDepartmentById(departmentId)
  \/ \E doctorId \in DoctorIds : getDoctorById(doctorId)
  \/ \E patientId \in PatientIds : getPatientById(patientId)
  \/ \E departmentId \in DepartmentIds : deleteDepartment(departmentId)
  \/ \E doctorId \in DoctorIds : deleteDoctor(doctorId)
  \/ \E patientId \in PatientIds : deletePatient(patientId)

SpecDirectory == Init /\ [][NextDirectory]_vars

\* C6: after a successful deletePatient, deleteDoctor or deleteDepartment the
\* get-by-id of the id returns NotFound, in the state the delete leaves and in
\* every later one, and a further delete of the id returns NotFound.
DeletedStaysDeleted ==
  /\ [](DOMAIN Departments \cup DOMAIN Doctors \cup DOMAIN Patients
          \subseteq usedIds)
  /\ [][ /\ \A departmentId \in DepartmentIds :
              /\ ( /\ result'.op = "deleteDepartment"
                   /\ result'.tag = "Ok"
                   /\ deleteDepartment(departmentId) )
                 => GetDepartmentById(departmentId)'.tag = "NotFound"
              /\ ( /\ departmentId \in usedIds
                   /\ GetDepartmentById(departmentId).tag = "NotFound" )
                 => /\ GetDepartmentById(departmentId)'.tag = "NotFound"
                    /\ deleteDepartment(departmentId)
                         => result'.tag = "NotFound"
         /\ \A doctorId \in DoctorIds :
              /\ ( /\ result'.op = "deleteDoctor"
                   /\ result'.tag = "Ok"
                   /\ deleteDoctor(doctorId) )
                 => GetDoctorById(doctorId)'.tag = "NotFound"
              /\ ( /\ doctorId \in usedIds
                   /\ GetDoctorById(doctorId).tag = "NotFound" )
                 => /\ GetDoctorById(doctorId)'.tag = "NotFound"
                    /\ deleteDoctor(doctorId) => result'.tag = "NotFound"
         /\ \A patientId \in PatientIds :
              /\ ( /\ result'.op = "deletePatient"
                   /\ result'.tag = "Ok"
                   /\ deletePatient(patientId) )
                 => GetPatientById(patientId)'.tag = "NotFound"
              /\ ( /\ patientId \in usedIds
                   /\ GetPatientById(patientId).tag = "NotFound" )
                 => /\ GetPatientById(patientId)'.tag = "NotFound"
                    /\ deletePatient(patientId) => result'.tag = "NotFound"
       ]_vars

\* a patient was deleted, another was created after it under a new id, and a
\* second delete of the first has just been refused
DeletedWitness ==
  /\ result.op = "deletePatient"
  /\ result.tag = "NotFound"
  /\ PatientIds \subseteq usedIds
  /\ Cardinality(DOMAIN Patients) = 1
  /\ \E patientId \in PatientIds :
       /\ result.val = <<"Patient with id=", patientId, " not found">>
       /\ GetPatientById(patientId).tag = "NotFound"

-----------------------------------------------------------------------------
(* Updates of doctors and patients, with whole and partial payloads *)

StoredDoctors ==
  [name : {<<"a">>}, department_id : {First(DepartmentIds)}, image : {"x"}]

StoredPatients == CreatePatientPayload({<<"a">>}, {30})

UpdateDoctorInputs ==
  LET payloads ==
        [name : {<<"b">>}, department_id : {First(DepartmentIds) + 1},
         image : {"y"}]
  IN  payloads \cup {Restrict(payload, {"name"}) : payload \in payloads}

UpdatePatientInputs ==
  LET payloads == CreatePatientPayload({<<"b">>}, {0})
  IN  payloads \cup {Restrict(payload, {"age"}) : payload \in payloads}

NextUpdate ==
  \/ \E payload \in CreateDepartmentPayload({<<"a">>}) :
       createDepartment(payload, First(DepartmentIds))
  \/ \E payload \in StoredDoctors, caller \in Principals,
        doctorId \in DoctorIds :
       createDoctor(payload, caller, doctorId)
  \/ \E payload \in StoredPatients, patientId \in PatientIds :
       createPatient(payload, "alice", patientId)
  \/ \E doctorId \in Refs(DoctorIds), payload \in UpdateDoctorInputs :
       updateDoctor(doctorId, payload)
  \/ \E patientId \in Refs(PatientIds), payload \in UpdatePatientInputs :
       updatePatient(patientId, payload)

SpecUpdate == Init /\ [][NextUpdate]_vars

\* the stored record under key has the payload's fields from the payload and
\* the others as before, is the one returned, and nothing else has changed
Merged(store, storeAfter, fields, key, payload) ==
  /\ result'.tag = "Ok"
  /\ DOMAIN storeAfter = DOMAIN store
  /\ \A f \in fields :
       storeAfter[key][f] =
         IF f \in DOMAIN payload THEN payload[f] ELSE store[key][f]
  /\ DOMAIN storeAfter[key] = fields
  /\ result'.val = storeAfter[key]
  /\ \A other \in DOMAIN store \ {key} : storeAfter[other] = store[other]

\* C7: updateDoctor and updatePatient on a stored id store and return the
\* prior record with the payload's fields replaced and the other fields (id
\* and owner; department_id and image for a name-only Doctor payload) kept,
\* under the same key, and change no other record.
UpdateMerges ==
  [][ /\ result'.op = "updateDoctor" =>
           \A doctorId \in DoctorIds, payload \in UpdateDoctorInputs :
             ( /\ doctorId \in DOMAIN Doctors
               /\ updateDoctor(doctorId, payload) )
             => /\ Merged(Doctors, Doctors', DoctorFields, doctorId, payload)
                /\ UNCHANGED <<Departments, Patients, Consultations, Chats,
                               Appointments, Prescriptions, Payments,
                               MedicalRecords>>
      /\ result'.op = "updatePatient" =>
           \A patientId \in PatientIds, payload \in UpdatePatientInputs :
             ( /\ patientId \in DOMAIN Patients
               /\ updatePatient(patientId, payload) )
             => /\ Merged(Patients, Patients', PatientFields, patientId,
                          payload)
                /\ UNCHANGED <<Departments, Doctors, Consultations, Chats,
                               Appointments, Prescriptions, Payments,
                               MedicalRecords>>
    ]_vars

\* a doctor of bob's was renamed by a name-only payload next to an untouched
\* doctor
UpdateWitness ==
  /\ result.op = "updateDoctor"
  /\ result.tag = "Ok"
  /\ result.val.name = <<"b">>
  /\ result.val.owner = "bob"
  /\ result.val.department_id = First(DepartmentIds)
  /\ result.val.image = "x"
  /\ \E other \in DOMAIN Doctors : Doctors[other].name = <<"a">>

-----------------------------------------------------------------------------
(* Medical records, written under either patient id with any record *)

NotedRecords ==
  [patient_id : PatientIds, consultation_notes : {<< >>, <<"n1">>, <<"n2">>},
   prescriptions : {<< >>}, lab_results : {<< >>},
   immunizations : {<< >>, <<"flu">>}]

NextRecords ==
  \/ \E patientId \in PatientIds, updatedRecords \in NotedRecords :
       updateMedicalRecords(patientId, updatedRecords)
  \/ \E patientId \in PatientIds : getMedicalRecordsByPatient(patientId)

SpecRecords == Init /\ [][NextRecords]_vars

\* C11: every record of the MedicalRecords store has the patient_id that is
\* its key, so getMedicalRecordsByPatient(p) returns no record of another
\* patient.
RecordsKeyedByPatient ==
  /\ \A k \in DOMAIN MedicalRecords : MedicalRecords[k].patient_id = k
  /\ \A p \in PatientIds :
       GetMedicalRecordsByPatient(p).tag = "Ok"
         => GetMedicalRecordsByPatient(p).val.patient_id = p

\* C12: updateMedicalRecords(p, r) leaves exactly r under p, whatever was
\* stored there before, so that getMedicalRecordsByPatient(p) returns r, and
\* leaves the records under the other keys as they were.
LastRecordWins ==
  [][ result'.op = "updateMedicalRecords" =>
        \A patientId \in PatientIds, updatedRecords \in NotedRecords :
          updateMedicalRecords(patientId, updatedRecords)
          => /\ GetMedicalRecordsByPatient(patientId)'.tag = "Ok"
             /\ GetMedicalRecordsByPatient(patientId)'.val = updatedRecords
             /\ DOMAIN MedicalRecords' = DOMAIN MedicalRecords \cup {patientId}
             /\ \A other \in DOMAIN MedicalRecords \ {patientId} :
                  MedicalRecords'[other] = MedicalRecords[other]
    ]_vars

\* a record without notes or immunizations has just been written under one
\* key while the other key holds a record with both
LastRecordWitness ==
  /\ result.op = "updateMedicalRecords"
  /\ result.val.consultation_notes = << >>
  /\ result.val.immunizations = << >>
  /\ \E p, q \in DOMAIN MedicalRecords :
       /\ p # q
       /\ MedicalRecords[p] = result.val
       /\ MedicalRecords[q].consultation_notes = <<"n1">>
       /\ MedicalRecords[q].immunizations = <<"flu">>

-----------------------------------------------------------------------------
(* The calculators, over ranges of their arguments *)

Weights == {0, 50, 70, 120}

Heights == {0, 150, 175, 180}

MaxBaseCost == 100

NextCalculators ==
  \/ \E weight \in Weights, height \in Heights : calculateBMI(weight, height)
  \/ \E patientWeight \in Weights, dosagePerKg \in 0 .. 5 :
       calculateDosage(patientWeight, dosagePerKg)
  \/ \E baseCost \in 0 .. MaxBaseCost, hasInsurance \in BOOLEAN :
       estimateInsuranceCost(baseCost, hasInsurance)
  \/ \E age \in {30, 60}, bmi \in {18, 23, 35},
        bloodPressure \in {110, 120, 160} :
       calculateHealthRiskScore(age, bmi, bloodPressure)

SpecCalculators == Init /\ [][NextCalculators]_vars

\* C14, as the claim has it: calculateBMI with height 0 returns an error
\* tagged InvalidPayload with the message "Height cannot be zero.".
ZeroHeightInvalidPayload ==
  [][ result'.op = "calculateBMI" =>
        \A weight \in Weights :
          calculateBMI(weight, 0)
          => /\ result'.tag = "InvalidPayload"
             /\ result'.val = <<"Height cannot be zero.">>
    ]_vars

\* C14: calculateBMI with height 0 returns, for any weight, an error tagged
\* Error with the message "Height cannot be zero.", never Ok.
ZeroHeightError ==
  [][ result'.op = "calculateBMI" =>
        \A weight \in Weights :
          calculateBMI(weight, 0)
          => /\ result'.tag = "Error"
             /\ result'.val = <<"Height cannot be zero.">>
    ]_vars

\* the height was 0 and the reply is the error
ZeroHeightWitness ==
  /\ result.op = "calculateBMI"
  /\ result.tag = "Error"
  /\ result.val = <<"Height cannot be zero.">>
  /\ \A weight \in Weights : CalculateBMI(weight, 0).tag = result.tag

-----------------------------------------------------------------------------
(* Profiles of two callers, created under ids in either order *)

OwnedDoctors ==
  [name : {<<"a">>}, department_id : {First(DepartmentIds)}, image : {"x"}]

OwnedPatients == CreatePatientPayload({<<"a">>}, {30})

OwnedDoctorUpdates ==
  [name : {<<"b">>}, department_id : {First(DepartmentIds)}, image : {"x"}]

OwnedPatientUpdates == CreatePatientPayload({<<"b">>}, {30})

NextOwners ==
  \/ \E payload \in CreateDepartmentPayload({<<"a">>}) :
       createDepartment(payload, First(DepartmentIds))
  \/ \E payload \in OwnedDoctors, caller \in Principals,
        doctorId \in DoctorIds :
       createDoctor(payload, caller, doctorId)
  \/ \E payload \in OwnedPatients, caller \in Principals,
        patientId \in PatientIds :
       createPatient(payload, caller, patientId)
  \/ \E caller \in Principals : getDoctorByOwner(caller)
  \/ \E caller \in Principals : getPatientByOwner(caller)
  \/ \E doctorId \in DoctorIds, payload \in OwnedDoctorUpdates :
       updateDoctor(doctorId, payload)
  \/ \E patientId \in PatientIds, payload \in OwnedPatientUpdates :
       updatePatient(patientId, payload)
  \/ \E doctorId \in DoctorIds, availability \in BOOLEAN :
       updateDoctorAvailability(doctorId, availability)

SpecOwners == Init /\ [][NextOwners]_vars

\* reply is NotFound when store has no record of the caller's, and otherwise
\* the caller's record under the least key
FirstOwned(reply, store, caller) ==
  LET mine == {k \in DOMAIN store : store[k].owner = caller}
  IN  IF mine = {}
      THEN reply.tag = "NotFound"
      ELSE /\ reply.tag = "Ok"
           /\ reply.val.id \in mine
           /\ \A k \in mine : reply.val.id <= k
           /\ reply.val = store[reply.val.id]

\* C17: getDoctorByOwner and getPatientByOwner return NotFound exactly when no
\* stored record has the caller as owner, and otherwise the first such record
\* in the order of the store; a record's owner is the caller of its create
\* and no update changes it.
OwnerLookup ==
  /\ [](\A caller \in Principals :
          /\ FirstOwned(GetDoctorByOwner(caller), Doctors, caller)
          /\ FirstOwned(GetPatientByOwner(caller), Patients, caller))
  /\ [][ /\ result'.op \in {"updateDoctor", "updatePatient",
                            "updateDoctorAvailability"} =>
              /\ DOMAIN Doctors' = DOMAIN Doctors
              /\ DOMAIN Patients' = DOMAIN Patients
              /\ \A k \in DOMAIN Doctors : Doctors'[k].owner = Doctors[k].owner
              /\ \A k \in DOMAIN Patients :
                   Patients'[k].owner = Patients[k].owner
         /\ (result'.op = "createDoctor" /\ result'.tag = "Ok") =>
              \A payload \in OwnedDoctors, caller \in Principals,
                 doctorId \in DoctorIds :
                createDoctor(payload, caller, doctorId)
                => /\ Doctors'[doctorId].owner = caller
                   /\ result'.val.owner = caller
         /\ (result'.op = "createPatient" /\ result'.tag = "Ok") =>
              \A payload \in OwnedPatients, caller \in Principals,
                 patientId \in PatientIds :
                createPatient(payload, caller, patientId)
                => /\ Patients'[patientId].owner = caller
                   /\ result'.val.owner = caller
       ]_vars

\* bob owns both doctors, one of them renamed; his lookup has just returned
\* the one under the lesser id and alice's lookup finds none
OwnerLookupWitness ==
  /\ result.op = "getDoctorByOwner"
  /\ result.tag = "Ok"
  /\ result.val.owner = "bob"
  /\ result.val.id = First(DoctorIds)
  /\ DOMAIN Doctors = DoctorIds
  /\ \A k \in DoctorIds : Doctors[k].owner = "bob"
  /\ \E k \in DoctorIds : Doctors[k].name = <<"b">>
  /\ GetDoctorByOwner("alice").tag = "NotFound"

====
